---------------------------- MODULE Spec2Model ----------------------------
(***************************************************************************)
(* A model of src/bot.py: the conversational intake bot.                   *)
(*                                                                         *)
(* State: the user_stacks row of one user (SQLite, persistent), the        *)
(* aiogram FSM state and FSM data of that user (MemoryStorage), and the    *)
(* handler coroutines that are suspended at an await.  A handler runs      *)
(* atomically from one await to the next (single-threaded event loop);     *)
(* sqlite3 calls and MemoryStorage calls do not suspend, message.answer    *)
(* does.  Sending a message is assumed to succeed (the chat transport is   *)
(* an external collaborator), except that the transport may refuse a text  *)
(* that is empty; a storage call may fail.                                 *)
(***************************************************************************)
EXTENDS Naturals, Sequences, FiniteSets, Bags, TLC

(***************************************************************************)
(* Text.  A text is a sequence of characters; a character is a record that *)
(* keeps its class, its case and its letter, so that str.strip, str.lower, *)
(* len and the regular expression of validate_name are computed on it.     *)
(***************************************************************************)
Ch(cls, up, id) == [cls |-> cls, up |-> up, id |-> id]
La(id) == Ch("lat", FALSE, id)
LA(id) == Ch("lat", TRUE, id)
Cy(id) == Ch("cyr", FALSE, id)
CY(id) == Ch("cyr", TRUE, id)
Sp == Ch("ws", FALSE, " ")
Hy == Ch("hyphen", FALSE, "-")
Dg(id) == Ch("digit", FALSE, id)
Pn(id) == Ch("punct", FALSE, id)

\* str.lower(): letters lose their upper case, every other character is kept
LowerCh(c) == IF c.cls \in {"lat", "cyr"} THEN [c EXCEPT !.up = FALSE] ELSE c
Lower(s) == [i \in 1..Len(s) |-> LowerCh(s[i])]

\* str.strip(): leading and trailing whitespace removed
RECURSIVE LStrip(_)
LStrip(s) == IF s # <<>> /\ Head(s).cls = "ws" THEN LStrip(Tail(s)) ELSE s
RECURSIVE RStrip(_)
RStrip(s) ==
    IF s # <<>> /\ s[Len(s)].cls = "ws" THEN RStrip(SubSeq(s, 1, Len(s) - 1)) ELSE s
Strip(s) == RStrip(LStrip(s))

\* the texts a user sends
CmdStartText == <<Pn("/"), La("s"), La("t"), La("a"), La("r"), La("t")>>
CmdUpdateText == <<Pn("/"), La("u"), La("p"), La("d"), La("a"), La("t"), La("e")>>
CmdMystackText ==
    <<Pn("/"), La("m"), La("y"), La("s"), La("t"), La("a"), La("c"), La("k")>>
\* the four buttons of get_update_keyboard: "Имя", "Пол", "Стек", "Все вместе"
BtnName == <<CY("i"), Cy("m"), Cy("ya")>>
BtnGender == <<CY("p"), Cy("o"), Cy("l")>>
BtnStack == <<CY("s"), Cy("t"), Cy("e"), Cy("k")>>
BtnAll ==
    <<CY("v"), Cy("s"), Cy("e"), Sp, Cy("v"), Cy("m"), Cy("e"), Cy("s"), Cy("t"), Cy("e")>>
\* the two buttons of get_gender_keyboard: "Мужской", "Женский"
BtnMale == <<CY("m"), Cy("u"), Cy("zh"), Cy("s"), Cy("k"), Cy("o"), Cy("j")>>
BtnFemale == <<CY("zh"), Cy("e"), Cy("n"), Cy("s"), Cy("k"), Cy("i"), Cy("j")>>
\* names: "Jo", " Jo " (as typed with blanks around it), "J"
NameJo == <<LA("j"), La("o")>>
NameJoPadded == <<Sp>> \o NameJo \o <<Sp>>
NameJ == <<LA("j")>>
\* a stack, "Python, SQL", and a vacancy text made of two copies of it
StackText ==
    <<LA("p"), La("y"), La("t"), La("h"), La("o"), La("n"), Pn(","), Sp,
      LA("s"), LA("q"), LA("l")>>
VacancyText == StackText \o StackText

(***************************************************************************)
(* Values of a nullable TEXT column and of message.text (None for a        *)
(* message without text, e.g. a photo).                                    *)
(***************************************************************************)
NULL == [isnull |-> TRUE, s |-> <<>>]
Str(s) == [isnull |-> FALSE, s |-> s]
\* Python truthiness of a column value: neither None nor ''
Truthy(v) == ~v.isnull /\ v.s # <<>>

(***************************************************************************)
(* Program constants and model bounds.                                     *)
(***************************************************************************)
MIN_NAME_LENGTH == 2
MAX_NAME_LENGTH == 100
MIN_STACK_LENGTH == 10
MIN_VACANCY_LENGTH == 20
\* the names given to validate_name: every text of up to MaxNameLen characters
MaxNameLen == 3
\* the titles and bodies given to the parser are made of up to MaxPieces pieces
MaxPieces == 2
\* CURRENT_TIMESTAMP is a counter; at most MaxClock rows are ever inserted
MaxClock == 2
\* at most MaxTasks handlers of the user are suspended at an await at once
MaxTasks == 2

(***************************************************************************)
(* ProfileStore: the user_stacks row of the user.                          *)
(***************************************************************************)
Row(name, gender, stack, at) ==
    [exists |-> TRUE, name |-> name, gender |-> gender, tech_stack |-> stack,
     created_at |-> at]
NoRow ==
    [exists |-> FALSE, name |-> NULL, gender |-> NULL, tech_stack |-> NULL,
     created_at |-> 0]

\* INSERT OR REPLACE: the whole row is replaced, created_at takes its default
SaveUserStack(stack, name, gender, now) == Row(name, gender, Str(stack), now)

\* name, gender: NULL stands for an argument left at None
\* mutant: an argument left at None overwrites the column
UpdateUserInfoOverwrite(row, name, gender, now) ==
    IF row.exists
    THEN [row EXCEPT !.name = name, !.gender = gender]
    ELSE Row(name, gender, Str(<<>>), now)
\* mutant: INSERT OR REPLACE instead of SELECT and UPDATE
UpdateUserInfoReplace(row, name, gender, now) == Row(name, gender, Str(<<>>), now)
\* mutant: a user without a row gets none (the INSERT branch is missing)
UpdateUserInfoNoInsert(row, name, gender, now) ==
    IF row.exists
    THEN [row EXCEPT !.name = IF ~name.isnull THEN name ELSE @,
                     !.gender = IF ~gender.isnull THEN gender ELSE @]
    ELSE row
UpdateUserInfo(row, name, gender, now) ==
    IF row.exists
    THEN [row EXCEPT !.name = IF ~name.isnull THEN name ELSE @,
                     !.gender = IF ~gender.isnull THEN gender ELSE @]
    ELSE Row(name, gender, Str(<<>>), now)

\* UPDATE user_stacks SET tech_stack = ? (the statement inside handle_stack_input)
UpdateTechStack(row, stack) ==
    IF row.exists THEN [row EXCEPT !.tech_stack = Str(stack)] ELSE row

\* None both for a missing row and for a read that raised (ok = FALSE)
None == [found |-> FALSE, name |-> NULL, gender |-> NULL, tech_stack |-> NULL]
GetUserData(row, ok) ==
    IF ok /\ row.exists
    THEN [found |-> TRUE, name |-> row.name, gender |-> row.gender,
          tech_stack |-> row.tech_stack]
    ELSE None

\* mutant: only None counts as missing, '' does not
IsProfileCompleteNotNull(row, ok) ==
    LET user_data == GetUserData(row, ok)
    IN  /\ user_data.found
        /\ ~user_data.name.isnull /\ ~user_data.gender.isnull
        /\ ~user_data.tech_stack.isnull
\* mutant: any row counts as a complete profile
IsProfileCompleteRowOnly(row, ok) == GetUserData(row, ok).found
\* mutant: the gender is not looked at
IsProfileCompleteNoGender(row, ok) ==
    LET user_data == GetUserData(row, ok)
    IN  user_data.found /\ Truthy(user_data.name) /\ Truthy(user_data.tech_stack)
IsProfileComplete(row, ok) ==
    LET user_data == GetUserData(row, ok)
    IN  IF ~user_data.found
        THEN FALSE
        ELSE Truthy(user_data.name) /\ Truthy(user_data.gender)
                /\ Truthy(user_data.tech_stack)

(***************************************************************************)
(* Validator.                                                              *)
(***************************************************************************)
\* one character of the class [а-яА-ЯёЁa-zA-Z\s\-]
NameChar(c) == c.cls \in {"cyr", "lat", "ws", "hyphen"}
\* mutant: the characters are checked before the length
ValidateNameCharsFirst(name) ==
    IF ~(Len(name) >= 1 /\ \A i \in 1..Len(name) : NameChar(name[i])) THEN "bad_chars"
    ELSE IF Len(name) < MIN_NAME_LENGTH THEN "too_short"
    ELSE IF Len(name) > MAX_NAME_LENGTH THEN "too_long"
    ELSE "ok"
\* mutant: a name of MIN_NAME_LENGTH characters is too short
ValidateNameMinExcluded(name) ==
    IF Len(name) <= MIN_NAME_LENGTH THEN "too_short"
    ELSE IF Len(name) > MAX_NAME_LENGTH THEN "too_long"
    ELSE IF ~(Len(name) >= 1 /\ \A i \in 1..Len(name) : NameChar(name[i]))
         THEN "bad_chars"
    ELSE "ok"
\* mutant: the minimum length is not checked
ValidateNameNoMin(name) ==
    IF Len(name) > MAX_NAME_LENGTH THEN "too_long"
    ELSE IF ~(Len(name) >= 1 /\ \A i \in 1..Len(name) : NameChar(name[i]))
         THEN "bad_chars"
    ELSE "ok"
ValidateName(name) ==
    IF Len(name) < MIN_NAME_LENGTH THEN "too_short"
    ELSE IF Len(name) > MAX_NAME_LENGTH THEN "too_long"
    ELSE IF ~(Len(name) >= 1 /\ \A i \in 1..Len(name) : NameChar(name[i]))
         THEN "bad_chars"
    ELSE "ok"

\* the list ['мужской', 'женский'] of handle_gender_input
GenderLabels == {Lower(BtnMale), Lower(BtnFemale)}

(***************************************************************************)
(* Searching a text: the regular expressions of ask_ai_api and of          *)
(* handle_vacancy are computed on the characters.                          *)
(***************************************************************************)
\* the line break: whitespace for \s and str.strip, and not matched by '.'
Nl == Ch("ws", FALSE, "\n")
Min(S) == CHOOSE i \in S : \A j \in S : i <= j
Max(S) == CHOOSE i \in S : \A j \in S : i >= j
\* the literal lit stands in s at index i (ci: re.IGNORECASE)
MatchAt(s, i, lit, ci) ==
    /\ i + Len(lit) - 1 <= Len(s)
    /\ \A k \in 1..Len(lit) :
          IF ci THEN LowerCh(s[i + k - 1]) = LowerCh(lit[k]) ELSE s[i + k - 1] = lit[k]
\* the indices at or after from where lit stands in s
Occurrences(s, lit, from, ci) ==
    {i \in from..Len(s) : MatchAt(s, i, lit, ci)}
\* \s* taken greedily from index e: the index of the first character that is
\* not whitespace (Len(s) + 1 when there is none)
SkipWs(s, e) ==
    LET rest == {j \in e..Len(s) : s[j].cls # "ws"}
    IN  IF rest = {} THEN Len(s) + 1 ELSE Min(rest)

\* "<think>" and "</think>"
ThinkOpen == <<Pn("<"), La("t"), La("h"), La("i"), La("n"), La("k"), Pn(">")>>
ThinkClose ==
    <<Pn("<"), Pn("/"), La("t"), La("h"), La("i"), La("n"), La("k"), Pn(">")>>
\* re.sub(r'<think>.*?</think>', '', text, flags=re.DOTALL): every opening tag
\* is removed with the text up to the first closing tag after it
RECURSIVE RemoveThink(_)
RemoveThink(s) ==
    LET opens == Occurrences(s, ThinkOpen, 1, FALSE)
        o == IF opens = {} THEN 0 ELSE Min(opens)
        closes == IF o = 0 THEN {}
                  ELSE Occurrences(s, ThinkClose, o + Len(ThinkOpen), FALSE)
        c == IF closes = {} THEN 0 ELSE Min(closes)
    IN  IF c = 0 THEN s
        ELSE SubSeq(s, 1, o - 1)
                \o RemoveThink(SubSeq(s, c + Len(ThinkClose), Len(s)))
\* mutant: the text is not trimmed after the blocks are removed
CleanNoStrip(text) == RemoveThink(text)
\* cleaned_text of ask_ai_api
Clean(text) == Strip(RemoveThink(text))

\* the markers "НАЗВАНИЕ:" and "ТЕКСТ ОТКЛИКА:"
TitleMarker ==
    <<CY("n"), CY("a"), CY("z"), CY("v"), CY("a"), CY("n"), CY("i"), CY("e"), Pn(":")>>
BodyMarker ==
    <<CY("t"), CY("e"), CY("k"), CY("s"), CY("t"), Sp,
      CY("o"), CY("t"), CY("k"), CY("l"), CY("i"), CY("k"), CY("a"), Pn(":")>>
NoMatch == [found |-> FALSE, group |-> <<>>]
\* r'НАЗВАНИЕ:\s*(.+?)(?:\n|$)' tried with the marker ending right before e:
\* \s* takes all the whitespace and gives back as little as (.+?) needs, (.+?)
\* takes at least one character that is not a line break and stops at the first
\* line break or at the end
TitleMatchAt(s, e) ==
    LET w == SkipWs(s, e)
        back == {j \in e..Len(s) : s[j] # Nl}
        g == IF w <= Len(s) THEN w ELSE IF back = {} THEN 0 ELSE Max(back)
        breaks == {j \in (g + 1)..Len(s) : s[j] = Nl}
        k == IF breaks = {} THEN Len(s) ELSE Min(breaks) - 1
    IN  IF g = 0 THEN NoMatch ELSE [found |-> TRUE, group |-> SubSeq(s, g, k)]
\* re.search: the leftmost occurrence of the marker after which the rest matches
TitleSearch(s) ==
    LET hits == {i \in Occurrences(s, TitleMarker, 1, TRUE) :
                    TitleMatchAt(s, i + Len(TitleMarker)).found}
    IN  IF hits = {} THEN NoMatch ELSE TitleMatchAt(s, Min(hits) + Len(TitleMarker))
\* r'ТЕКСТ ОТКЛИКА:\s*(.+)' with re.DOTALL: (.+) takes everything to the end,
\* and at least one character, which \s* gives back when all the rest is blank
BodyMatchAt(s, e) ==
    LET w == SkipWs(s, e)
        g == IF w <= Len(s) THEN w ELSE Len(s)
    IN  IF e > Len(s) THEN NoMatch ELSE [found |-> TRUE, group |-> SubSeq(s, g, Len(s))]
BodySearch(s) ==
    LET hits == {i \in Occurrences(s, BodyMarker, 1, TRUE) :
                    BodyMatchAt(s, i + Len(BodyMarker)).found}
    IN  IF hits = {} THEN NoMatch ELSE BodyMatchAt(s, Min(hits) + Len(BodyMarker))
\* mutant: the title alone decides
ParseTitleOnly(response) ==
    LET title_match == TitleSearch(response)
    IN  [found |-> title_match.found, title |-> Strip(title_match.group),
         text |-> Strip(BodySearch(response).group)]
\* title_match and text_match of handle_vacancy, and the two groups trimmed
Parse(response) ==
    LET title_match == TitleSearch(response)
        text_match == BodySearch(response)
    IN  IF title_match.found /\ text_match.found
        THEN [found |-> TRUE, title |-> Strip(title_match.group),
              text |-> Strip(text_match.group)]
        ELSE [found |-> FALSE, title |-> <<>>, text |-> <<>>]

\* '\n\n(ответ укорочен)'
TruncationNotice ==
    <<Nl, Nl, Pn("("), Cy("o"), Cy("t"), Cy("v"), Cy("e"), Cy("t"), Sp,
      Cy("u"), Cy("k"), Cy("o"), Cy("r"), Cy("o"), Cy("ch"), Cy("e"), Cy("n"), Pn(")")>>
MAX_RESPONSE_LENGTH == 4000
\* if len(response) > 4000: response = response[:4000] + notice
Truncate(response) ==
    IF Len(response) > MAX_RESPONSE_LENGTH
    THEN SubSeq(response, 1, MAX_RESPONSE_LENGTH) \o TruncationNotice
    ELSE response

(***************************************************************************)
(* ExternalGenerationClient: ask_ai_api.                                   *)
(***************************************************************************)
\* max_retries
MAX_RETRIES == 3
\* What one attempt may come to:
\*   "ok"            status 200 and a body with choices[0].message.content
\*   "status"        a status other than 200
\*   "key_error"     status 200, JSON without the path (KeyError, IndexError)
\*   "timeout"       asyncio.TimeoutError
\*   "client_error"  aiohttp.ClientError (the connection failed)
\*   "content_type"  status 200, the body is not JSON and is not labelled as JSON:
\*                   response.json() raises ContentTypeError, an aiohttp.ClientError
\*   "json_decode"   status 200, the body is labelled as JSON and is not JSON:
\*                   response.json() raises JSONDecodeError, a ValueError
\*   "other"         any other exception (TypeError on a content that is null)
AiOutcomes ==
    {"ok", "status", "key_error", "timeout", "client_error", "content_type",
     "json_decode", "other"}
\* the branch of ask_ai_api that handles a failed attempt
ExceptClause(outcome) ==
    IF outcome = "status" THEN "not_200"
    ELSE IF outcome = "key_error" THEN "KeyError"
    ELSE IF outcome = "timeout" THEN "TimeoutError"
    ELSE IF outcome \in {"client_error", "content_type"} THEN "ClientError"
    ELSE "Exception"
\* A fixed sentence of the bot is kept as one element of a text: none of them
\* holds a marker, a tag or a blank at its ends, or is longer than 4000 characters.
Sentence(id) == <<Ch("text", FALSE, id)>>
\* response.status of the attempts that fail on their status
StatusCode == <<Dg("5"), Dg("0"), Dg("0")>>
\* mutant: every failure is answered with the sentence of the last except clause
ApologyGeneric(clause) ==
    Sentence("Izvinite, proizoshla neozhidannaya oshibka. Poprobujte pozzhe.")
\* the sentence returned when the last attempt has failed in clause
Apology(clause) ==
    IF clause = "KeyError"
    THEN Sentence("Izvinite, ne udalos obrabotat otvet AI. Poprobujte pozzhe.")
    ELSE IF clause = "not_200"
    THEN Sentence("Izvinite, API vremenno nedostupen (kod ") \o StatusCode
            \o Sentence("). Poprobujte pozzhe.")
    ELSE IF clause = "TimeoutError"
    THEN Sentence("Izvinite, prevysheno vremya ozhidaniya otveta. Poprobujte pozzhe.")
    ELSE IF clause = "ClientError"
    THEN Sentence("Izvinite, oshibka soedineniya s serverom. Poprobujte pozzhe.")
    ELSE Sentence("Izvinite, proizoshla neozhidannaya oshibka. Poprobujte pozzhe.")
\* mutant: the apology is returned one attempt early
IsLastAttemptEarly(attempt) == attempt >= MAX_RETRIES - 2
\* attempt == max_retries - 1
IsLastAttempt(attempt) == attempt = MAX_RETRIES - 1
\* mutant: the wait does not grow
BackoffConstant(attempt) == 1
\* 2 ** attempt
Backoff(attempt) == 2 ^ attempt

(***************************************************************************)
(* State.                                                                  *)
(***************************************************************************)
VARIABLES
    db,         \* the user_stacks row of the user (NoRow when there is none)
    clock,      \* CURRENT_TIMESTAMP of the latest insert
    fsm_state,  \* MemoryStorage: the FSM state of the user ("None" when unset)
    fsm_data,   \* MemoryStorage: the FSM data dict of the user
    tasks,      \* bag of the handlers suspended at an await, with what they do next
    ev,         \* the latest handler step: handler, message text, reply, storage fault
    script,     \* history: how far the run has followed the first-contact scenario
    race,       \* history: the state before two messages met, and the two messages
    pure        \* the latest application of a pure function: arguments and result

vars == <<db, clock, fsm_state, fsm_data, tasks, ev, script, race, pure>>

\* FSM data: the dict is empty, or holds the key updating_all
EmptyData == [set |-> FALSE, updating_all |-> FALSE]
\* data.get('updating_all', False)
DataGet(data) == data.set /\ data.updating_all
\* state.update_data(updating_all=v)
UpdateData(data, v) == [set |-> TRUE, updating_all |-> v]

\* the call of ask_ai_api made by a handler: where it is (pc), the attempt it is
\* at, the waits it has made, the outcome of its latest attempt, the content of
\* the successful response, the string it returned, and the replies sent since
NoCall ==
    [pc |-> "-", attempt |-> 0, waits |-> <<>>, last |-> "-", content |-> <<>>,
     resp |-> <<>>, sent |-> <<>>]
\* a suspended handler of the message m: after its await it sets the FSM state to
\* next (and, for the choice "all", first sets updating_all)
Cont(h, m, next, setall) ==
    [h |-> h, m |-> m, next |-> next, setall |-> setall, ud |-> TRUE, ai |-> NoCall]
\* handle_vacancy suspended at its first await, holding user_data (ud: not None)
VacancyCont(m, ud) ==
    [h |-> "handle_vacancy", m |-> m, next |-> "-", setall |-> FALSE, ud |-> ud,
     ai |-> [NoCall EXCEPT !.pc = "wait"]]

\* a handler step: the handler, the text of its message, what it did, whether a
\* storage call failed in it, and the call of ask_ai_api it belongs to
Event(h, text, out, fault) ==
    [h |-> h, text |-> text, out |-> out, fault |-> fault, ai |-> NoCall]

\* The texts above that are a valid name (2 to 100 letters, blanks and hyphens
\* once trimmed), a valid gender (one of the two labels) and a valid stack (at
\* least 10 characters).
ValidNameTexts == {Str(t) : t \in {NameJo, NameJoPadded, BtnName, BtnGender, BtnStack,
                                   BtnAll, BtnMale, BtnFemale}}
ValidGenderTexts == {Str(BtnMale), Str(BtnFemale)}
ValidStackTexts == {Str(StackText), Str(VacancyText), Str(BtnAll)}

\* The first-contact scenario of the end-to-end description: /start, a name, a
\* gender, a stack, each handled without a storage fault and to completion before
\* the next is sent.  script is "p0" in the initial state, advances by one with
\* each step of the scenario, and is "off" once the run leaves it.
ScriptNext(p, e) ==
    LET sent(texts) == e.out # "set_state" /\ e.text \in texts /\ ~e.fault
        resumed == e.out = "set_state"
    IN  IF p = "p0" /\ sent({Str(CmdStartText)}) THEN "p1"
        ELSE IF p = "p1" /\ resumed THEN "p2"
        ELSE IF p = "p2" /\ sent(ValidNameTexts) THEN "p3"
        ELSE IF p = "p3" /\ resumed THEN "p4"
        ELSE IF p = "p4" /\ sent(ValidGenderTexts) THEN "p5"
        ELSE IF p = "p5" /\ resumed THEN "p6"
        ELSE IF p = "p6" /\ sent(ValidStackTexts) THEN "p7"
        ELSE IF p = "p7" /\ resumed THEN "p8"
        ELSE "off"
\* the handlers that write a column of the row before their await
InputHandlers == {"handle_name_input", "handle_gender_input", "handle_stack_input"}
\* race is idle until the state is noted as the base of an episode; from then on
\* it keeps the messages that are received, whether one of them was received
\* while a handler was suspended (overlap), and whether that handler was one
\* that has written the row and was suspended before its set_state (met)
NoRace == [phase |-> "idle", base |-> <<>>, msgs |-> <<>>, overlap |-> FALSE,
           met |-> FALSE]
NoPure == [f |-> "-", args |-> <<>>, result |-> <<>>]
\* a handler step is recorded
Record(e) ==
    /\ ev' = e
    /\ script' = ScriptNext(script, e)
    /\ pure' = pure
\* the step of a handler that starts on the message text
Emit(h, text, out, fault) ==
    /\ Record(Event(h, text, out, fault))
    /\ race' = IF race.phase = "open"
               THEN [race EXCEPT !.msgs = Append(@, text),
                                 !.overlap = @ \/ tasks # EmptyBag,
                                 !.met = @ \/ \E c \in BagToSet(tasks) :
                                                c.h \in InputHandlers]
               ELSE race
\* the step of a handler that resumes after an await
EmitResume(h, text, out, ai) ==
    /\ Record([Event(h, text, out, FALSE) EXCEPT !.ai = ai])
    /\ race' = race

\* the messages of the user: texts, and a message without text
Inbox ==
    {Str(t) : t \in {CmdStartText, CmdUpdateText, CmdMystackText, BtnName, BtnGender,
                     BtnStack, BtnAll, BtnMale, NameJo, NameJoPadded, NameJ,
                     StackText, VacancyText}}
        \cup {NULL}

Init ==
    /\ db = NoRow
    /\ clock = 0
    /\ fsm_state = "None"
    /\ fsm_data = EmptyData
    /\ tasks = EmptyBag
    /\ ev = Event("init", NULL, "none", FALSE)
    /\ script = "p0"
    /\ race = NoRace
    /\ pure = NoPure

(***************************************************************************)
(* Dispatch: the first registered handler whose filter accepts the message *)
(* handles it.                                                             *)
(***************************************************************************)
\* the filter Command(c): the first word of the text is the command
IsCommand(m, c) ==
    /\ ~m.isnull
    /\ Len(m.s) >= Len(c)
    /\ \A i \in 1..Len(c) : m.s[i] = c[i]
    /\ Len(m.s) = Len(c) \/ m.s[Len(c) + 1].cls = "ws"

RouteCommandsFirst(m, state) ==
    IF IsCommand(m, CmdStartText) THEN "cmd_start"
    ELSE IF IsCommand(m, CmdUpdateText) THEN "cmd_update"
    ELSE IF IsCommand(m, CmdMystackText) THEN "cmd_mystack"
    ELSE IF state = "choosing_update" THEN "handle_update_choice"
    ELSE IF state = "waiting_for_name" THEN "handle_name_input"
    ELSE IF state = "waiting_for_gender" THEN "handle_gender_input"
    ELSE IF state = "waiting_for_stack" THEN "handle_stack_input"
    ELSE IF state = "ready_for_vacancy" THEN "handle_vacancy"
    ELSE "handle_other"

Route(m, state) ==
    IF IsCommand(m, CmdStartText) THEN "cmd_start"
    ELSE IF IsCommand(m, CmdUpdateText) THEN "cmd_update"
    ELSE IF state = "choosing_update" THEN "handle_update_choice"
    ELSE IF IsCommand(m, CmdMystackText) THEN "cmd_mystack"
    ELSE IF state = "waiting_for_name" THEN "handle_name_input"
    ELSE IF state = "waiting_for_gender" THEN "handle_gender_input"
    ELSE IF state = "waiting_for_stack" THEN "handle_stack_input"
    ELSE IF state = "ready_for_vacancy" THEN "handle_vacancy"
    ELSE "handle_other"

\* a handler starts: room for one more suspended handler
Accepts(m, h, limit) == BagCardinality(tasks) < limit /\ Route(m, fsm_state) = h
Spawn(c) == tasks' = tasks (+) SetToBag({c})
\* the row and the clock after a write (a new row takes the next timestamp)
Store(row) ==
    /\ row.created_at <= MaxClock
    /\ db' = row
    /\ clock' = IF row.exists THEN row.created_at ELSE clock

(***************************************************************************)
(* Handlers.  Each action is a handler from its start to its first await   *)
(* (or to its return); the XxxSetState actions are what a handler does     *)
(* when it resumes.  R is the set of outcomes a storage call may have      *)
(* (TRUE: it succeeds, FALSE: sqlite3 raises).  limit bounds the handlers  *)
(* in progress.                                                            *)
(***************************************************************************)
\* a suspended handler h resumes: state.set_state(next)
SetState(h) ==
    \E c \in BagToSet(tasks) :
        /\ c.h = h
        /\ fsm_data' = IF c.setall THEN UpdateData(fsm_data, TRUE) ELSE fsm_data
        /\ fsm_state' = c.next
        /\ tasks' = tasks (-) SetToBag({c})
        /\ EmitResume(h, c.m, "set_state", NoCall)
        /\ UNCHANGED <<db, clock>>

\* the except branch of a handler: the error message, nothing else
Fails(h, m, fault) ==
    /\ tasks' = tasks
    /\ Emit(h, m, "error", fault)

CmdStart(m, limit, R) ==
    /\ Accepts(m, "cmd_start", limit)
    /\ UNCHANGED <<db, clock, fsm_state, fsm_data>>
    /\ \E r1 \in R :
        IF IsProfileComplete(db, r1)
        THEN \E r2 \in R :
             LET user_data == GetUserData(db, r2)
             IN  IF user_data.found
                 THEN /\ Spawn(Cont("cmd_start", m, "ready_for_vacancy", FALSE))
                      /\ Emit("cmd_start", m, "welcome_back", FALSE)
                 ELSE Fails("cmd_start", m, TRUE)  \* user_data['name'] on None
        ELSE /\ Spawn(Cont("cmd_start", m, "waiting_for_name", FALSE))
             /\ Emit("cmd_start", m, "ask_name", ~r1)

CmdStartSetState == SetState("cmd_start")

CmdUpdate(m, limit, R) ==
    /\ Accepts(m, "cmd_update", limit)
    /\ UNCHANGED <<db, clock, fsm_state, fsm_data>>
    /\ \E r \in R :
        IF ~IsProfileComplete(db, r)
        THEN /\ tasks' = tasks
             /\ Emit("cmd_update", m, "reject_incomplete", ~r)
        ELSE /\ Spawn(Cont("cmd_update", m, "choosing_update", FALSE))
             /\ Emit("cmd_update", m, "menu", FALSE)

CmdUpdateSetState == SetState("cmd_update")

HandleUpdateChoice(m, limit) ==
    /\ Accepts(m, "handle_update_choice", limit)
    /\ UNCHANGED <<db, clock, fsm_state, fsm_data>>
    /\ IF m.isnull
       THEN Fails("handle_update_choice", m, FALSE)  \* None.strip()
       ELSE LET choice == Lower(Strip(m.s))
                h == "handle_update_choice"
            IN  IF choice = Lower(BtnName)
                THEN /\ Spawn(Cont(h, m, "waiting_for_name", FALSE))
                     /\ Emit(h, m, "prompt_name", FALSE)
                ELSE IF choice = Lower(BtnGender)
                THEN /\ Spawn(Cont(h, m, "waiting_for_gender", FALSE))
                     /\ Emit(h, m, "prompt_gender", FALSE)
                ELSE IF choice = Lower(BtnStack)
                THEN /\ Spawn(Cont(h, m, "waiting_for_stack", FALSE))
                     /\ Emit(h, m, "prompt_stack", FALSE)
                ELSE IF choice = Lower(BtnAll)
                THEN /\ Spawn(Cont(h, m, "waiting_for_name", TRUE))
                     /\ Emit(h, m, "prompt_all", FALSE)
                ELSE /\ tasks' = tasks
                     /\ Emit(h, m, "menu_again", FALSE)

UpdateChoiceSetState == SetState("handle_update_choice")

CmdMystack(m, limit, R) ==
    /\ Accepts(m, "cmd_mystack", limit)
    /\ UNCHANGED <<db, clock, fsm_state, fsm_data, tasks>>
    /\ \E r \in R :
        LET user_data == GetUserData(db, r)
        IN  Emit("cmd_mystack", m,
                        IF user_data.found THEN "show_data" ELSE "no_data", ~r)

HandleNameInput(m, limit, R) ==
    /\ Accepts(m, "handle_name_input", limit)
    /\ UNCHANGED <<fsm_state, fsm_data>>
    /\ IF m.isnull
       THEN Fails("handle_name_input", m, FALSE) /\ UNCHANGED <<db, clock>>
       ELSE LET name == Strip(m.s)
                h == "handle_name_input"
            IN  IF ValidateName(name) # "ok"
                THEN /\ tasks' = tasks
                     /\ Emit(h, m, ValidateName(name), FALSE)
                     /\ UNCHANGED <<db, clock>>
                ELSE \E w \in R :
                     IF ~w  \* update_user_info raises
                     THEN Fails(h, m, TRUE) /\ UNCHANGED <<db, clock>>
                     ELSE LET row == UpdateUserInfo(db, Str(name), NULL, clock + 1)
                              updating_all == DataGet(fsm_data)
                          IN  /\ Store(row)
                              /\ \E r \in R :
                                 LET is_complete == IsProfileComplete(row, r)
                                 IN  IF updating_all \/ ~is_complete
                                     THEN /\ Spawn(Cont(h, m, "waiting_for_gender", FALSE))
                                          /\ Emit(h, m, "name_saved", ~r)
                                     ELSE /\ Spawn(Cont(h, m, "ready_for_vacancy", FALSE))
                                          /\ Emit(h, m, "name_changed", FALSE)

NameSetState == SetState("handle_name_input")

HandleGenderInput(m, limit, R) ==
    /\ Accepts(m, "handle_gender_input", limit)
    /\ UNCHANGED <<fsm_state, fsm_data>>
    /\ IF m.isnull
       THEN Fails("handle_gender_input", m, FALSE) /\ UNCHANGED <<db, clock>>
       ELSE LET gender == Lower(Strip(m.s))
                h == "handle_gender_input"
            IN  IF gender \notin GenderLabels
                THEN /\ tasks' = tasks
                     /\ Emit(h, m, "invalid_gender", FALSE)
                     /\ UNCHANGED <<db, clock>>
                ELSE \E w \in R :
                     IF ~w  \* update_user_info raises
                     THEN Fails(h, m, TRUE) /\ UNCHANGED <<db, clock>>
                     ELSE LET row == UpdateUserInfo(db, NULL, Str(gender), clock + 1)
                              updating_all == DataGet(fsm_data)
                          IN  /\ Store(row)
                              /\ \E r \in R :
                                 LET user_data == GetUserData(row, r)
                                     was_complete == Truthy(user_data.name)
                                                        /\ Truthy(user_data.tech_stack)
                                 IN  IF ~user_data.found
                                     THEN Fails(h, m, TRUE)  \* user_data.get on None
                                     ELSE IF updating_all \/ ~was_complete
                                     THEN /\ Spawn(Cont(h, m, "waiting_for_stack", FALSE))
                                          /\ Emit(h, m, "gender_saved", FALSE)
                                     ELSE /\ Spawn(Cont(h, m, "ready_for_vacancy", FALSE))
                                          /\ Emit(h, m, "gender_changed", FALSE)

GenderSetState == SetState("handle_gender_input")

HandleStackInput(m, limit, R) ==
    /\ Accepts(m, "handle_stack_input", limit)
    /\ fsm_state' = fsm_state
    /\ IF m.isnull
       THEN Fails("handle_stack_input", m, FALSE) /\ UNCHANGED <<db, clock, fsm_data>>
       ELSE LET stack == Strip(m.s)
                h == "handle_stack_input"
            IN  IF Len(stack) < MIN_STACK_LENGTH
                THEN /\ tasks' = tasks
                     /\ Emit(h, m, "stack_too_short", FALSE)
                     /\ UNCHANGED <<db, clock, fsm_data>>
                ELSE \E r1 \in R, w \in R :
                     LET user_data == GetUserData(db, r1)
                         row == IF user_data.found
                                THEN UpdateTechStack(db, stack)
                                ELSE SaveUserStack(stack, NULL, NULL, clock + 1)
                         updating_all == DataGet(fsm_data)
                     IN  IF ~w  \* the UPDATE or save_user_stack raises
                         THEN Fails(h, m, TRUE) /\ UNCHANGED <<db, clock, fsm_data>>
                         ELSE /\ Store(row)
                              /\ IF updating_all
                                 THEN /\ fsm_data' = UpdateData(fsm_data, FALSE)
                                      /\ Spawn(Cont(h, m, "ready_for_vacancy", FALSE))
                                      /\ Emit(h, m, "all_updated", ~r1)
                                 ELSE /\ fsm_data' = fsm_data
                                      /\ \E r2 \in R :
                                         IF IsProfileComplete(row, r2)
                                         THEN /\ Spawn(Cont(h, m, "ready_for_vacancy", FALSE))
                                              /\ Emit(h, m,
                                                     IF ~user_data.found
                                                        \/ ~Truthy(user_data.tech_stack)
                                                     THEN "first_setup"
                                                     ELSE "stack_changed", ~r1)
                                         ELSE /\ tasks' = tasks
                                              /\ Emit(h, m, "warn_incomplete",
                                                             ~r1 \/ ~r2)

StackSetState == SetState("handle_stack_input")

HandleVacancy(m, limit, R) ==
    /\ Accepts(m, "handle_vacancy", limit)
    /\ UNCHANGED <<db, clock, fsm_state, fsm_data>>
    /\ IF m.isnull
       THEN Fails("handle_vacancy", m, FALSE)
       ELSE LET vacancy_text == Strip(m.s)
                h == "handle_vacancy"
            IN  \E r1 \in R :
                IF ~IsProfileComplete(db, r1)
                THEN /\ tasks' = tasks
                     /\ Emit(h, m, "reject_incomplete", ~r1)
                ELSE \E r2 \in R :
                     IF Len(vacancy_text) < MIN_VACANCY_LENGTH
                     THEN /\ tasks' = tasks
                          /\ Emit(h, m, "vacancy_too_short", ~r2)
                     ELSE /\ Spawn(VacancyCont(m, GetUserData(db, r2).found))
                          /\ Emit(h, m, "wait", ~r2)

\* the contents the generation service answers with: a title and a body under
\* their markers, the same after a block of reasoning, a text without markers, a
\* title without a body, a block of reasoning and nothing else; and a text of
\* 4001 characters
TitleText == <<LA("b"), La("o"), La("t")>>
BodyText == <<LA("h"), La("i"), Pn("!")>>
TwoMarkerContent ==
    TitleMarker \o <<Sp>> \o TitleText \o <<Nl, Nl>> \o BodyMarker \o <<Nl>> \o BodyText
ThinkContent ==
    ThinkOpen \o BodyText \o <<Nl>> \o ThinkClose \o <<Nl>> \o TwoMarkerContent \o <<Nl>>
PlainContent == BodyText
TitleOnlyContent == TitleMarker \o <<Sp>> \o TitleText
EmptyContent == <<Sp>> \o ThinkOpen \o BodyText \o ThinkClose
LongContent == [i \in 1..(MAX_RESPONSE_LENGTH + 1) |-> La("a")]
Contents ==
    {TwoMarkerContent, ThinkContent, PlainContent, TitleOnlyContent, EmptyContent}

\* a reply of handle_vacancy: the block it is sent in and the text put in it
Sent(kind, text) == [kind |-> kind, text |-> text]
\* the except branch of handle_vacancy
VacancyError ==
    Sent("error", Sentence("Proizoshla oshibka pri sozdanii otklika. Poprobujte eshche raz ili obratites k administratoru."))
\* the suspended handler c goes on with its call in the state ai
Continue(c, ai) ==
    tasks' = (tasks (-) SetToBag({c})) (+) SetToBag({[c EXCEPT !.ai = ai]})
\* the suspended handler c returns
Finish(c) == tasks' = tasks (-) SetToBag({c})

\* handle_vacancy resumes after "wait": user_data['name'] raises when user_data
\* is None, otherwise ask_ai_api is called and posts its first request
VacancyCall ==
    \E c \in BagToSet(tasks) :
        /\ c.h = "handle_vacancy" /\ c.ai.pc = "wait"
        /\ UNCHANGED <<db, clock, fsm_state, fsm_data>>
        /\ IF ~c.ud
           THEN /\ Finish(c)
                /\ EmitResume(c.h, c.m, "error",
                              [c.ai EXCEPT !.pc = "raised", !.sent = <<VacancyError>>])
           ELSE LET ai == [c.ai EXCEPT !.pc = "request"]
                IN  Continue(c, ai) /\ EmitResume(c.h, c.m, "request", ai)

\* mutant: the text is sent as it is whenever a marker is missing, and also
\* when both are found
ReplyRawAlways(c, ai) ==
    LET response == Truncate(ai.resp)
        a == [ai EXCEPT !.pc = "done", !.sent = <<Sent("raw", response)>>]
    IN  Finish(c) /\ EmitResume(c.h, c.m, "raw", a)
\* ask_ai_api has returned ai.resp: handle_vacancy cuts it to 4000 characters,
\* looks for the two markers and sends the title block, or the text as it is.
\* The chat transport may refuse a text that is empty (message.answer raises).
Reply(c, ai) ==
    LET response == Truncate(ai.resp)
        parsed == Parse(response)
    IN  IF parsed.found
        THEN LET a == [ai EXCEPT !.pc = "title_sent",
                                 !.sent = <<Sent("title_block", parsed.title)>>]
             IN  Continue(c, a) /\ EmitResume(c.h, c.m, "title_block", a)
        ELSE \E delivered \in (IF response = <<>> THEN BOOLEAN ELSE {TRUE}) :
                LET a == [ai EXCEPT !.pc = IF delivered THEN "done" ELSE "raised",
                                    !.sent = IF delivered THEN <<Sent("raw", response)>>
                                             ELSE <<VacancyError>>]
                IN  /\ Finish(c)
                    /\ EmitResume(c.h, c.m, IF delivered THEN "raw" ELSE "error", a)

\* one attempt of ask_ai_api comes to its outcome (A: the outcomes, C: the
\* contents of a successful response)
AiAttempt(A, C) ==
    \E c \in BagToSet(tasks) :
        /\ c.h = "handle_vacancy" /\ c.ai.pc = "request"
        /\ UNCHANGED <<db, clock, fsm_state, fsm_data>>
        /\ \E o \in A :
            IF o = "ok"
            THEN \E content \in C :
                    Reply(c, [c.ai EXCEPT !.last = o, !.content = content,
                                          !.resp = Clean(content)])
            ELSE IF IsLastAttempt(c.ai.attempt)
            THEN Reply(c, [c.ai EXCEPT !.last = o,
                                       !.resp = Apology(ExceptClause(o))])
            ELSE LET ai == [c.ai EXCEPT !.last = o, !.pc = "failed"]
                 IN  Continue(c, ai) /\ EmitResume(c.h, c.m, "attempt_failed", ai)

\* the end of the loop body after a failed attempt: asyncio.sleep(2 ** attempt)
\* if attempt < max_retries - 1; then the next attempt posts its request, or the
\* loop is over and the last return of ask_ai_api is taken
AiSleep ==
    \E c \in BagToSet(tasks) :
        /\ c.h = "handle_vacancy" /\ c.ai.pc = "failed"
        /\ UNCHANGED <<db, clock, fsm_state, fsm_data>>
        /\ LET ai == [c.ai EXCEPT !.waits = IF c.ai.attempt < MAX_RETRIES - 1
                                            THEN Append(@, Backoff(c.ai.attempt))
                                            ELSE @,
                                  !.attempt = @ + 1, !.pc = "request"]
           IN  IF ai.attempt < MAX_RETRIES
               THEN Continue(c, ai) /\ EmitResume(c.h, c.m, "request", ai)
               ELSE Reply(c, [ai EXCEPT !.resp =
                        Sentence("Izvinite, ne udalos poluchit otvet posle neskolkih popytok.")])

\* mutant: handle_vacancy ends as the other handlers do, by set_state
VacancyBodySetsState ==
    \E c \in BagToSet(tasks) :
        /\ c.h = "handle_vacancy" /\ c.ai.pc = "title_sent"
        /\ UNCHANGED <<db, clock, fsm_data>>
        /\ fsm_state' = "ready_for_vacancy"
        /\ LET parsed == Parse(Truncate(c.ai.resp))
               ai == [c.ai EXCEPT !.pc = "done",
                                  !.sent = Append(@, Sent("body_block", parsed.text))]
           IN  Finish(c) /\ EmitResume(c.h, c.m, "body_block", ai)
\* asyncio.sleep(0.3) is over: the body block is sent and handle_vacancy returns
VacancyBody ==
    \E c \in BagToSet(tasks) :
        /\ c.h = "handle_vacancy" /\ c.ai.pc = "title_sent"
        /\ UNCHANGED <<db, clock, fsm_state, fsm_data>>
        /\ LET parsed == Parse(Truncate(c.ai.resp))
               ai == [c.ai EXCEPT !.pc = "done",
                                  !.sent = Append(@, Sent("body_block", parsed.text))]
           IN  Finish(c) /\ EmitResume(c.h, c.m, "body_block", ai)

HandleOther(m, limit) ==
    /\ Accepts(m, "handle_other", limit)
    /\ UNCHANGED <<db, clock, fsm_state, fsm_data, tasks>>
    /\ Emit("handle_other", m, IF fsm_state = "None" THEN "help" ELSE "none", FALSE)

(***************************************************************************)
(* Specifications.                                                         *)
(* Spec: the transport delivers the messages of the user one at a time and *)
(* each is handled to completion before the next starts; storage calls may *)
(* fail.  SpecConcurrent: dp.start_polling handles updates as tasks, so a  *)
(* second message of the user may be handled while a handler is suspended  *)
(* at an await (up to MaxTasks handlers in progress); storage calls may    *)
(* fail.  SpecOk: as Spec, with a storage that never fails.                *)
(***************************************************************************)
Receive(inbox, limit, R) ==
    \E m \in inbox :
        \/ CmdStart(m, limit, R)
        \/ CmdUpdate(m, limit, R)
        \/ HandleUpdateChoice(m, limit)
        \/ CmdMystack(m, limit, R)
        \/ HandleNameInput(m, limit, R)
        \/ HandleGenderInput(m, limit, R)
        \/ HandleStackInput(m, limit, R)
        \/ HandleVacancy(m, limit, R)
        \/ HandleOther(m, limit)

\* the contents answered in the runs where the messages meet
RaceContents == {TwoMarkerContent, PlainContent}
Resume(A, C) ==
    \/ CmdStartSetState
    \/ CmdUpdateSetState
    \/ UpdateChoiceSetState
    \/ NameSetState
    \/ GenderSetState
    \/ StackSetState
    \/ VacancyCall
    \/ AiAttempt(A, C)
    \/ AiSleep
    \/ VacancyBody

Next == Receive(Inbox, 1, BOOLEAN) \/ Resume(AiOutcomes, Contents)
Spec == Init /\ [][Next]_vars

\* as Spec, and no storage call fails
NextOk == Receive(Inbox, 1, {TRUE}) \/ Resume(AiOutcomes, Contents)
SpecOk == Init /\ [][NextOk]_vars

\* as SpecOk, with the long content among the contents and fewer messages
NextReply ==
    Receive({Str(t) : t \in {CmdStartText, CmdUpdateText, CmdMystackText, BtnName,
                             NameJo, BtnMale, StackText, VacancyText}}, 1, {TRUE})
        \/ Resume({"ok", "timeout"}, Contents \cup {LongContent})
SpecReply == Init /\ [][NextReply]_vars

\* the messages sent in the concurrent runs
RaceInbox ==
    {Str(t) : t \in {CmdStartText, CmdUpdateText, CmdMystackText, BtnName, BtnGender,
                     BtnMale, NameJo, StackText, VacancyText}}
NextConcurrent ==
    Receive(RaceInbox, MaxTasks, BOOLEAN) \/ Resume({"ok", "timeout"}, RaceContents)
SpecConcurrent == Init /\ [][NextConcurrent]_vars

\* as SpecConcurrent, the choices of the stack and of all fields sent too, and
\* no storage call fails
NextConcurrentOk ==
    Receive(RaceInbox \cup {Str(BtnStack), Str(BtnAll)}, MaxTasks, {TRUE})
        \/ Resume({"ok", "timeout"}, RaceContents)
SpecConcurrentOk == Init /\ [][NextConcurrentOk]_vars

(***************************************************************************)
(* SpecRace: messages handled one at a time and to completion, no storage  *)
(* call failing, up to a state with no handler in progress that is noted   *)
(* as the base of an episode; in the episode two more messages are         *)
(* received, the second of which may be handled while the handler of the   *)
(* first is suspended.                                                     *)
(***************************************************************************)
\* the state the episode starts from is noted
RaceStart ==
    /\ race.phase = "idle"
    /\ tasks = EmptyBag
    /\ race' = [phase |-> "open",
                base |-> [db |-> db, clock |-> clock, fsm_state |-> fsm_state,
                          fsm_data |-> fsm_data],
                msgs |-> <<>>, overlap |-> FALSE, met |-> FALSE]
    /\ UNCHANGED <<db, clock, fsm_state, fsm_data, tasks, ev, script, pure>>
NextRace ==
    \/ race.phase = "idle" /\ Receive(RaceInbox, 1, {TRUE})
    \/ RaceStart
    \/ race.phase = "open" /\ Len(race.msgs) < 2
           /\ Receive(RaceInbox, MaxTasks, {TRUE})
    \/ Resume({"ok", "timeout"}, RaceContents)
SpecRace == Init /\ [][NextRace]_vars

(***************************************************************************)
(* SpecStore: the ProfileStore functions called directly, one call per     *)
(* step, on a row drawn from every combination of missing, empty and set   *)
(* columns.  ev records the call: h the function, text its argument, out   *)
(* which argument was passed (update_user_info) or the value returned.     *)
(***************************************************************************)
StoreColumns(texts) == {NULL, Str(<<>>)} \cup {Str(t) : t \in texts}
StoreRows ==
    {NoRow} \cup
    {Row(n, g, t, 1) : n \in StoreColumns({NameJo, BtnName}),
                       g \in StoreColumns({Lower(BtnMale)}),
                       t \in StoreColumns({StackText})}

InitStore ==
    /\ db \in StoreRows
    /\ clock = db.created_at
    /\ fsm_state = "None"
    /\ fsm_data = EmptyData
    /\ tasks = EmptyBag
    /\ ev = Event("init", NULL, "none", FALSE)
    /\ script = "off"
    /\ race = NoRace
    /\ pure = NoPure

\* update_user_info(user_id, name=name) and update_user_info(user_id, gender=gender)
CallUpdateUserInfo(R) ==
    /\ UNCHANGED <<fsm_state, fsm_data, tasks>>
    /\ \E w \in R :
        \/ \E name \in {Str(NameJo), Str(BtnName)} :
            /\ IF w THEN Store(UpdateUserInfo(db, name, NULL, clock + 1))
                    ELSE UNCHANGED <<db, clock>>
            /\ Emit("update_user_info", name, "name", ~w)
        \/ \E gender \in {Str(Lower(BtnMale)), Str(Lower(BtnFemale))} :
            /\ IF w THEN Store(UpdateUserInfo(db, NULL, gender, clock + 1))
                    ELSE UNCHANGED <<db, clock>>
            /\ Emit("update_user_info", gender, "gender", ~w)

\* save_user_stack(user_id, stack)
CallSaveUserStack(R) ==
    /\ UNCHANGED <<fsm_state, fsm_data, tasks>>
    /\ \E w \in R, stack \in {StackText, VacancyText} :
        /\ IF w THEN Store(SaveUserStack(stack, NULL, NULL, clock + 1))
                ELSE UNCHANGED <<db, clock>>
        /\ Emit("save_user_stack", Str(stack), "stack", ~w)

\* get_user_data(user_id)
CallGetUserData(R) ==
    /\ UNCHANGED <<db, clock, fsm_state, fsm_data, tasks>>
    /\ \E r \in R :
        Emit("get_user_data", NULL,
             IF GetUserData(db, r).found THEN "row" ELSE "None", ~r)

\* is_profile_complete(user_id)
CallIsProfileComplete(R) ==
    /\ UNCHANGED <<db, clock, fsm_state, fsm_data, tasks>>
    /\ \E r \in R :
        Emit("is_profile_complete", NULL,
             IF IsProfileComplete(db, r) THEN "True" ELSE "False", ~r)

NextStore ==
    \/ CallUpdateUserInfo(BOOLEAN)
    \/ CallSaveUserStack(BOOLEAN)
    \/ CallGetUserData(BOOLEAN)
    \/ CallIsProfileComplete(BOOLEAN)
SpecStore == InitStore /\ [][NextStore]_vars

(***************************************************************************)
(* The pure functions, applied to inputs drawn from bounded sets.          *)
(***************************************************************************)
\* the texts of up to n elements of the alphabet
TextsUpTo(alphabet, n) == UNION {[1..k -> alphabet] : k \in 0..n}
RECURSIVE Flatten(_)
Flatten(pieces) == IF pieces = <<>> THEN <<>> ELSE Head(pieces) \o Flatten(Tail(pieces))
Repeat(c, n) == [i \in 1..n |-> c]

\* names: a Latin and a Cyrillic letter, a blank, a hyphen, a digit, a letter of
\* another alphabet ("é"), and names around the two limits of the length
NameAlphabet == {La("a"), CY("ya"), Sp, Hy, Dg("1"), Ch("letter", FALSE, "e-acute")}
NameJohn123 == <<LA("j"), La("o"), La("h"), La("n"), Dg("1"), Dg("2"), Dg("3")>>
NameInputs ==
    TextsUpTo(NameAlphabet, MaxNameLen)
        \cup {NameJo, NameJ, NameJohn123,
              Repeat(La("a"), MAX_NAME_LENGTH), Repeat(La("a"), MAX_NAME_LENGTH + 1),
              Repeat(La("a"), MAX_NAME_LENGTH - 1) \o <<Dg("1")>>,
              Repeat(La("a"), MAX_NAME_LENGTH) \o <<Dg("1")>>}
\* validate_name(name)
CallValidateName ==
    /\ \E name \in NameInputs :
          pure' = [f |-> "validate_name", args |-> <<name>>, result |-> ValidateName(name)]
    /\ UNCHANGED <<db, clock, fsm_state, fsm_data, tasks, ev, script, race>>
SpecValidate == Init /\ [][CallValidateName]_vars

\* the parts of a title (one line) and of a body
TitlePieces == {<<La("x")>>, <<Sp>>, TitleMarker, BodyMarker}
BodyPieces == TitlePieces \cup {<<Nl>>}
Titles == {Flatten(ps) : ps \in TextsUpTo(TitlePieces, MaxPieces)}
Bodies == {Flatten(ps) : ps \in TextsUpTo(BodyPieces, MaxPieces)}
\* the format asked of the generation service: the title after its marker on
\* one line, the body after its marker
BuildRaw(title, body) == TitleMarker \o title \o <<Nl>> \o BodyMarker \o body
\* the parsing of handle_vacancy applied to such a text
CallParse ==
    /\ \E title \in Titles, body \in Bodies :
          pure' = [f |-> "parse", args |-> <<title, body>>,
                   result |-> Parse(BuildRaw(title, body))]
    /\ UNCHANGED <<db, clock, fsm_state, fsm_data, tasks, ev, script, race>>
SpecParser == Init /\ [][CallParse]_vars

(***************************************************************************)
(* The claims.                                                             *)
(***************************************************************************)
\* a profile is complete: the row exists and no column is NULL or ''
NonEmpty(v) == v # NULL /\ v # Str(<<>>)
ProfileComplete(row) ==
    row.exists /\ NonEmpty(row.name) /\ NonEmpty(row.gender) /\ NonEmpty(row.tech_stack)
\* a handler h is suspended and will set the FSM state to next
Pending(bag, h, next) == \E c \in BagToSet(bag) : c.h = h /\ c.next = next
InputStates == {"waiting_for_name", "waiting_for_gender", "waiting_for_stack"}

\* C1: /start, handled to completion with no storage fault, sets the state to
\* ready_for_vacancy when the stored profile is complete and to waiting_for_name
\* when it is not, whatever the state was; no step of cmd_start writes the profile
\* or the flag, and the state is not written before the reply is sent.
C1_StartSetsState ==
    [][ev'.h = "cmd_start" =>
          /\ db' = db /\ fsm_data' = fsm_data
          /\ ev'.out # "set_state" =>
                /\ fsm_state' = fsm_state
                /\ ~ev'.fault =>
                      Pending(tasks', "cmd_start",
                              IF ProfileComplete(db) THEN "ready_for_vacancy"
                              ELSE "waiting_for_name")
          /\ (ev'.out = "set_state" /\ ~ev.fault) =>
                fsm_state' = IF ProfileComplete(db) THEN "ready_for_vacancy"
                             ELSE "waiting_for_name"]_vars
\* /start has moved a session that was collecting input to ready_for_vacancy
C1_Witness ==
    /\ ev.h = "cmd_start" /\ ev.out = "set_state"
    /\ fsm_state = "ready_for_vacancy" /\ ProfileComplete(db)
    /\ DataGet(fsm_data)

\* C2: /update, handled with no storage fault, leaves the state as it is when the
\* profile is incomplete (and nothing is left to change it) and sets it to
\* choosing_update when the profile is complete; no step of cmd_update writes the
\* profile.
C2_UpdateCommand ==
    [][ev'.h = "cmd_update" =>
          /\ db' = db /\ fsm_data' = fsm_data
          /\ ev'.out # "set_state" =>
                /\ fsm_state' = fsm_state
                /\ ~ProfileComplete(db) => tasks' = tasks
                /\ (ProfileComplete(db) /\ ~ev'.fault) =>
                      Pending(tasks', "cmd_update", "choosing_update")
          /\ ev'.out = "set_state" =>
                fsm_state' = "choosing_update" /\ ProfileComplete(db)]_vars
\* /update was rejected while the user was being asked for the gender
C2_Witness ==
    /\ ev.h = "cmd_update" /\ ev.out = "reject_incomplete" /\ ~ev.fault
    /\ fsm_state = "waiting_for_gender" /\ ~ProfileComplete(db) /\ tasks = EmptyBag

\* C3: for a new user (no row, no FSM state) the messages /start, a valid name, a
\* valid gender, a valid stack, each handled to completion, take the FSM state
\* through waiting_for_name, waiting_for_gender, waiting_for_stack and
\* ready_for_vacancy in that order; each field is in the row (trimmed, the gender
\* in lower case) while the state is still the one that asked for it, and the
\* profile is complete when ready_for_vacancy is reached.
C3_FirstContact ==
    /\ script = "p1" =>
          /\ fsm_state = "None" /\ ~db.exists
          /\ Pending(tasks, "cmd_start", "waiting_for_name")
    /\ script = "p2" => fsm_state = "waiting_for_name" /\ ~db.exists /\ tasks = EmptyBag
    /\ script = "p3" =>
          /\ fsm_state = "waiting_for_name" /\ db.name = Str(Strip(ev.text.s))
          /\ Pending(tasks, "handle_name_input", "waiting_for_gender")
    /\ script = "p4" =>
          fsm_state = "waiting_for_gender" /\ NonEmpty(db.name) /\ tasks = EmptyBag
    /\ script = "p5" =>
          /\ fsm_state = "waiting_for_gender" /\ NonEmpty(db.name)
          /\ db.gender = Str(Lower(Strip(ev.text.s)))
          /\ Pending(tasks, "handle_gender_input", "waiting_for_stack")
    /\ script = "p6" =>
          /\ fsm_state = "waiting_for_stack" /\ tasks = EmptyBag
          /\ NonEmpty(db.name) /\ NonEmpty(db.gender)
    /\ script = "p7" =>
          /\ fsm_state = "waiting_for_stack" /\ db.tech_stack = Str(Strip(ev.text.s))
          /\ ProfileComplete(db)
          /\ Pending(tasks, "handle_stack_input", "ready_for_vacancy")
    /\ script = "p8" =>
          fsm_state = "ready_for_vacancy" /\ ProfileComplete(db) /\ tasks = EmptyBag
\* the scenario has run to its end
C3_Witness == script = "p8" /\ fsm_state = "ready_for_vacancy"

\* C4: in waiting_for_name, waiting_for_gender and waiting_for_stack a text that is
\* not valid for that state gets the validation reply and leaves the FSM state,
\* the FSM data (updating_all), the row and the handlers in progress unchanged.
C4_InvalidInput ==
    [][(/\ ev'.out # "set_state" /\ ~ev'.text.isnull
        /\ \/ ev'.h = "handle_name_input" /\ ev'.text \notin ValidNameTexts
           \/ ev'.h = "handle_gender_input" /\ ev'.text \notin ValidGenderTexts
           \/ ev'.h = "handle_stack_input" /\ ev'.text \notin ValidStackTexts)
       => /\ UNCHANGED <<fsm_state, fsm_data, db, tasks>>
          /\ ev'.out \in {"too_short", "too_long", "bad_chars", "invalid_gender",
                          "stack_too_short"}]_vars
\* a stack that is too short was refused in the middle of a replace-all sequence
C4_Witness ==
    /\ ev.h = "handle_stack_input" /\ ev.out = "stack_too_short"
    /\ fsm_state = "waiting_for_stack" /\ DataGet(fsm_data) /\ ProfileComplete(db)

\* C5: updating_all is true only in waiting_for_name, waiting_for_gender and
\* waiting_for_stack; it is false in ready_for_vacancy and in choosing_update.
C5_FlagOnlyInReplaceAll == DataGet(fsm_data) => fsm_state \in InputStates

\* C6: update_user_info on an existing row overwrites only the column passed:
\* with name alone, gender and tech_stack keep their values, with gender alone,
\* name and tech_stack keep theirs, whatever the row held.
C6_UpdateKeepsOtherColumns ==
    [][(ev'.h = "update_user_info" /\ ~ev'.fault /\ db.exists)
       => /\ db'.exists /\ db'.tech_stack = db.tech_stack
          /\ ev'.out = "name" => db'.name = ev'.text /\ db'.gender = db.gender
          /\ ev'.out = "gender" => db'.gender = ev'.text /\ db'.name = db.name]_vars
\* the name of a complete profile was replaced
C6_Witness ==
    /\ ev.h = "update_user_info" /\ ev.out = "name" /\ ~ev.fault
    /\ db.name = ev.text /\ db.gender = Str(Lower(BtnMale))
    /\ db.tech_stack = Str(StackText)

\* a step of handle_stack_input that accepted a valid stack and wrote it
StackAccepted ==
    /\ ev'.h = "handle_stack_input" /\ ev'.text \in ValidStackTexts
    /\ ev'.out \notin {"error", "set_state"}

\* C7: when handle_stack_input accepts a valid stack for a user who has a row,
\* only tech_stack changes: name, gender and created_at keep their values, also
\* when the read of get_user_data fails.
C7_StackKeepsOtherColumns ==
    [][(StackAccepted /\ db.exists)
       => /\ db'.tech_stack = Str(Strip(ev'.text.s))
          /\ db'.name = db.name /\ db'.gender = db.gender
          /\ db'.created_at = db.created_at]_vars

\* C8: a handler in which a storage call failed replies with the error message,
\* leaves the row as it was and does not change the FSM state.
C8_FaultChangesNothing ==
    [][/\ ev'.fault => ev'.out = "error" /\ db' = db
       /\ (ev.fault /\ ev'.out = "set_state") => fsm_state' = fsm_state]_vars

\* C9: is_profile_complete, when its read succeeds, returns True exactly when the
\* row exists and name, gender and tech_stack are each neither NULL nor '', and
\* False (no exception) when there is no row.
C9_IsProfileComplete ==
    (ev.h = "is_profile_complete" /\ ~ev.fault)
        => /\ ev.out \in {"True", "False"}
           /\ ev.out = "True" <=> ProfileComplete(db)
\* False was returned for a row whose only missing column is an empty name
C9_Witness ==
    /\ ev.h = "is_profile_complete" /\ ev.out = "False" /\ ~ev.fault
    /\ db.exists /\ db.name = Str(<<>>)
    /\ NonEmpty(db.gender) /\ NonEmpty(db.tech_stack)

\* C10: with a second message of the user handled while a handler is suspended,
\* every write of handle_name_input and handle_gender_input sets its own column
\* and keeps the other columns and created_at of an existing row, and so does
\* the stack update after a successful read: no write of a concurrent handler
\* is lost.
C10_ConcurrentWrites ==
    [][/\ (/\ ev'.h = "handle_name_input" /\ ev'.text \in ValidNameTexts
           /\ ev'.out \notin {"error", "set_state"})
          => /\ db'.name = Str(Strip(ev'.text.s))
             /\ db.exists => /\ db'.gender = db.gender
                             /\ db'.tech_stack = db.tech_stack
                             /\ db'.created_at = db.created_at
       /\ ev'.out \in {"gender_saved", "gender_changed"}
          => /\ db'.gender = Str(Lower(Strip(ev'.text.s)))
             /\ db.exists => /\ db'.name = db.name
                             /\ db'.tech_stack = db.tech_stack
                             /\ db'.created_at = db.created_at
       /\ (StackAccepted /\ ~ev'.fault /\ db.exists)
          => /\ db'.tech_stack = Str(Strip(ev'.text.s))
             /\ db'.name = db.name /\ db'.gender = db.gender
             /\ db'.created_at = db.created_at]_vars
\* handle_gender_input has written while handle_name_input, its own write done,
\* is suspended: the row holds both
C10_Witness ==
    /\ ev.out \in {"gender_saved", "gender_changed"}
    /\ \E c \in BagToSet(tasks) : c.h = "handle_name_input"
    /\ \E c \in BagToSet(tasks) : c.h = "handle_gender_input"
    /\ db.name = Str(NameJo) /\ db.gender = Str(Lower(BtnMale))

\* the call of ask_ai_api of the latest step is going on / has returned
Calling == ev.ai.pc \in {"request", "failed"}
Returned == ev.ai.pc \in {"title_sent", "done", "raised"} /\ ev.ai.last # "-"
\* what is left of the loop of ask_ai_api
Variant(ai) == 2 * (MAX_RETRIES - ai.attempt) - (IF ai.pc = "failed" THEN 1 ELSE 0)

\* C11: ask_ai_api ends and returns a string whatever the attempts come to: every
\* step of the call brings the loop nearer to its end, no attempt is made beyond
\* the third, the first attempt that succeeds returns its content without the
\* <think> blocks and trimmed, and no attempt follows a success.
C11_GenerateTerminates ==
    [][/\ (ev'.ai.pc # "-") =>
             /\ ev'.ai.attempt < MAX_RETRIES
             /\ ev'.ai.last \in AiOutcomes \cup {"-"}
       /\ (Calling /\ ev'.h = "handle_vacancy") =>
             /\ ev'.ai.pc \in {"request", "failed", "title_sent", "done", "raised"}
             /\ (ev'.ai.pc \in {"request", "failed"})
                   => (Variant(ev'.ai) < Variant(ev.ai))
       /\ (ev.ai.pc = "request" /\ ev'.ai.last = "ok") =>
             /\ ev'.ai.pc \in {"title_sent", "done", "raised"}
             /\ ev'.ai.attempt = ev.ai.attempt
             /\ Strip(ev'.ai.resp) = ev'.ai.resp
             /\ (Occurrences(ev'.ai.content, ThinkOpen, 1, FALSE) = {})
                   => (ev'.ai.resp = Strip(ev'.ai.content))
             /\ (ev'.ai.content = ThinkContent) => (ev'.ai.resp = TwoMarkerContent)
       /\ (ev.ai.last = "ok" /\ ev'.ai.pc # "-") =>
             /\ ev'.out = "body_block"
             /\ ev'.ai.attempt = ev.ai.attempt /\ ev'.ai.resp = ev.ai.resp]_vars
\* the second attempt succeeded, on a content that held a <think> block
C11_Witness ==
    /\ Returned /\ ev.ai.last = "ok" /\ ev.ai.attempt = 1
    /\ ev.ai.content = ThinkContent /\ ev.ai.resp = TwoMarkerContent

\* C12: one wait follows each failed attempt but the last, of 1 second after
\* attempt 0 and 2 seconds after attempt 1; no wait follows attempt 2 or a
\* success, so a call that fails twice and then succeeds has waited 1 then 2.
C12_Backoff ==
    ev.ai.pc # "-" =>
        /\ Len(ev.ai.waits) = ev.ai.attempt
        /\ ev.ai.waits \in {<<>>, <<1>>, <<1, 2>>}
\* two attempts failed, the third succeeded
C12_Witness ==
    /\ Returned /\ ev.ai.last = "ok" /\ ev.ai.attempt = 2
    /\ ev.ai.waits = <<1, 2>> /\ ev.ai.resp = Clean(ev.ai.content)

\* the failure category of an outcome: a body that is not JSON, or JSON of
\* another shape, is a parse failure
Category(outcome) ==
    IF outcome \in {"key_error", "content_type", "json_decode"} THEN "KeyError"
    ELSE ExceptClause(outcome)
\* C13: an apology is returned only when the third attempt has failed, and it is
\* the apology of the failure category of that attempt, a malformed body giving
\* the apology of the parse failure.
C13_ApologyByCategory ==
    (Returned /\ ev.ai.last # "ok") =>
        /\ ev.ai.attempt = MAX_RETRIES - 1
        /\ ev.ai.resp = Apology(Category(ev.ai.last))

\* C14: a text made of the title marker, a title, a line break, the body marker
\* and a body is parsed into the trimmed title and the trimmed body, whatever
\* the title and the body (an empty title, a marker inside them).
C14_ParserRoundTrip ==
    pure.f = "parse" =>
        /\ pure.result.found
        /\ pure.result.title = Strip(pure.args[1])
        /\ pure.result.text = Strip(pure.args[2])

\* the characters validate_name accepts: the letters of the two alphabets
\* (a-z, A-Z, а-я, А-Я, ё, Ё), whitespace and the hyphen
Allowed(name) == \A i \in 1..Len(name) : name[i].cls \in {"lat", "cyr", "ws", "hyphen"}
\* C17: validate_name(s) is ok exactly when s has 2 to 100 characters, all of them
\* letters of the two alphabets, whitespace or hyphens; the length is looked at
\* first, so a text of 1 or of 101 characters is refused for its length also when
\* it holds a forbidden character; "Jo" is ok and "John123" is refused for its
\* characters.
C17_ValidateName ==
    pure.f = "validate_name" =>
        LET name == pure.args[1]
            result == pure.result
        IN  /\ result \in {"ok", "too_short", "too_long", "bad_chars"}
            /\ result = "ok" <=> (Len(name) >= 2 /\ Len(name) <= 100 /\ Allowed(name))
            /\ result = "too_short" <=> Len(name) < 2
            /\ result = "too_long" <=> Len(name) > 100
            /\ (name = NameJo) => (result = "ok")
            /\ (name = NameJohn123) => (result = "bad_chars")
\* a name of 101 characters that ends with a digit is refused for its length
C17_Witness ==
    /\ pure.f = "validate_name" /\ pure.result = "too_long"
    /\ Len(pure.args[1]) = 101 /\ ~Allowed(pure.args[1])

\* handle_vacancy has sent its last reply for the string ask_ai_api returned
Replied == ev.ai.pc \in {"done", "raised"} /\ ev.ai.last # "-"
\* C15: when both markers are found in the generated text, two messages are sent,
\* the title block and then the body block; when a marker is missing, one message
\* is sent, the generated text as it is, and no error reply.
C15_TwoBlocksOrRaw ==
    Replied =>
        LET raw == ev.ai.resp
        IN  IF TitleSearch(raw).found /\ BodySearch(raw).found
            THEN /\ Len(ev.ai.sent) = 2
                 /\ ev.ai.sent[1].kind = "title_block"
                 /\ ev.ai.sent[2].kind = "body_block"
            ELSE ev.ai.sent = <<Sent("raw", raw)>>

\* C16: no step of handle_vacancy writes the FSM state, the FSM data or the row,
\* whatever it comes to (the profile is incomplete, the text is too short, a
\* reply is generated, the attempts are exhausted): the state stays what it is,
\* also when another handler has set it while the call was going on.
C16_VacancyWritesNothing ==
    [][ev'.h = "handle_vacancy" => UNCHANGED <<db, clock, fsm_state, fsm_data>>]_vars
\* the body block is sent after /update has set choosing_update during the call
C16_Witness ==
    /\ ev.h = "handle_vacancy" /\ ev.out = "body_block"
    /\ fsm_state = "choosing_update"

\* the replies to a name that validate_name refuses
NameErrors == {"too_short", "too_long", "bad_chars"}
\* C18 as stated: a new user who has sent /start and is asked for the name sends
\* "Jo": an error is shown, the FSM state stays waiting_for_name and no name is
\* stored.
C18_JoRefused ==
    [][(script = "p2" /\ ev'.h = "handle_name_input" /\ ev'.text = Str(NameJo))
       => (ev'.out \in NameErrors /\ UNCHANGED <<fsm_state, db, tasks>>)]_vars
\* C18 as amended: "Jo" has the 2 characters a name needs and is accepted: unless
\* the write fails (error reply, nothing changed) the name is stored and the
\* handler goes on to set waiting_for_gender; it is the name of one character,
\* "J", that is shown an error with the state and the row unchanged.
C18_JoAccepted ==
    [][(script = "p2" /\ ev'.h = "handle_name_input") =>
          /\ (ev'.text = Str(NameJo)) =>
                \/ /\ ev'.out = "name_saved" /\ db'.name = Str(NameJo)
                   /\ fsm_state' = "waiting_for_name"
                   /\ Pending(tasks', "handle_name_input", "waiting_for_gender")
                \/ /\ ev'.out = "error" /\ ev'.fault
                   /\ UNCHANGED <<fsm_state, db, tasks>>
          /\ (ev'.text = Str(NameJ)) =>
                (ev'.out = "too_short" /\ UNCHANGED <<fsm_state, db, tasks>>)]_vars
\* the new user has sent "Jo" and is asked for the gender
C18_Witness ==
    /\ script = "p4" /\ ev.text = Str(NameJo) /\ ev.out = "set_state"
    /\ fsm_state = "waiting_for_gender" /\ db.name = Str(NameJo)

\* the choice of one field in the menu
SingleChoices == {Lower(BtnName), Lower(BtnGender), Lower(BtnStack)}
\* C19: after /update on a complete profile and the choice of one field, one
\* valid input for that field takes the session straight to ready_for_vacancy
\* and changes that field alone.
C19_SingleFieldUpdate ==
    [][(/\ ev.h = "handle_update_choice" /\ ev.out = "set_state"
        /\ Lower(Strip(ev.text.s)) \in SingleChoices
        /\ ProfileComplete(db)
        /\ ev'.out # "set_state" /\ ~ev'.fault
        /\ \/ ev'.h = "handle_name_input" /\ ev'.text \in ValidNameTexts
           \/ ev'.h = "handle_gender_input" /\ ev'.text \in ValidGenderTexts
           \/ ev'.h = "handle_stack_input" /\ ev'.text \in ValidStackTexts)
       => /\ Pending(tasks', ev'.h, "ready_for_vacancy")
          /\ db'.created_at = db.created_at
          /\ (ev'.h # "handle_name_input") => (db'.name = db.name)
          /\ (ev'.h # "handle_gender_input") => (db'.gender = db.gender)
          /\ (ev'.h # "handle_stack_input") => (db'.tech_stack = db.tech_stack)]_vars

\* The state after the message m is handled alone and to completion from the
\* state st, no storage call failing (the handler, then its set_state).
SerialStep(st, m) ==
    LET h == Route(m, st.fsm_state)
        complete == IsProfileComplete(st.db, TRUE)
        updating_all == DataGet(st.fsm_data)
        written(row, next) ==
            [st EXCEPT !.db = row, !.clock = row.created_at, !.fsm_state = next]
    IN  IF m.isnull THEN st
        ELSE IF h = "cmd_start"
        THEN [st EXCEPT !.fsm_state = IF complete THEN "ready_for_vacancy"
                                      ELSE "waiting_for_name"]
        ELSE IF h = "cmd_update"
        THEN [st EXCEPT !.fsm_state = IF complete THEN "choosing_update" ELSE @]
        ELSE IF h = "handle_update_choice"
        THEN LET choice == Lower(Strip(m.s))
             IN  IF choice = Lower(BtnName)
                 THEN [st EXCEPT !.fsm_state = "waiting_for_name"]
                 ELSE IF choice = Lower(BtnGender)
                 THEN [st EXCEPT !.fsm_state = "waiting_for_gender"]
                 ELSE IF choice = Lower(BtnStack)
                 THEN [st EXCEPT !.fsm_state = "waiting_for_stack"]
                 ELSE IF choice = Lower(BtnAll)
                 THEN [st EXCEPT !.fsm_state = "waiting_for_name",
                                 !.fsm_data = UpdateData(@, TRUE)]
                 ELSE st
        ELSE IF h = "handle_name_input"
        THEN LET name == Strip(m.s)
                 row == UpdateUserInfo(st.db, Str(name), NULL, st.clock + 1)
             IN  IF ValidateName(name) # "ok" THEN st
                 ELSE written(row, IF updating_all \/ ~IsProfileComplete(row, TRUE)
                                   THEN "waiting_for_gender"
                                   ELSE "ready_for_vacancy")
        ELSE IF h = "handle_gender_input"
        THEN LET gender == Lower(Strip(m.s))
                 row == UpdateUserInfo(st.db, NULL, Str(gender), st.clock + 1)
                 was_complete == Truthy(row.name) /\ Truthy(row.tech_stack)
             IN  IF gender \notin GenderLabels THEN st
                 ELSE written(row, IF updating_all \/ ~was_complete
                                   THEN "waiting_for_stack"
                                   ELSE "ready_for_vacancy")
        ELSE IF h = "handle_stack_input"
        THEN LET stack == Strip(m.s)
                 row == IF st.db.exists THEN UpdateTechStack(st.db, stack)
                        ELSE SaveUserStack(stack, NULL, NULL, st.clock + 1)
             IN  IF Len(stack) < MIN_STACK_LENGTH THEN st
                 ELSE IF updating_all
                 THEN [written(row, "ready_for_vacancy")
                          EXCEPT !.fsm_data = UpdateData(@, FALSE)]
                 ELSE written(row, IF IsProfileComplete(row, TRUE)
                                   THEN "ready_for_vacancy" ELSE st.fsm_state)
        ELSE st
\* the two messages of the episode handled one after the other
Serially(m1, m2) == SerialStep(SerialStep(race.base, m1), m2)
\* both messages of the episode are handled and no handler is left
RaceDone == race.phase = "open" /\ Len(race.msgs) = 2 /\ tasks = EmptyBag
\* SerialStep is what the handlers do: an episode whose second message arrives
\* when no handler is suspended ends in the state of that order
SerialStepAgrees ==
    (RaceDone /\ ~race.overlap)
    => Serially(race.msgs[1], race.msgs[2])
          = [db |-> db, clock |-> clock, fsm_state |-> fsm_state,
             fsm_data |-> fsm_data]

\* the state and the row at the end of an episode
Outcome(st) == <<st.fsm_state, st.db>>
\* C20 as stated: when the second message was received while the handler of the
\* first, its write done, was suspended before its set_state, the FSM state and
\* the row in the end are those of the two messages handled to completion in
\* one of the two orders.
C20_Serializable ==
    (RaceDone /\ race.met)
    => Outcome([fsm_state |-> fsm_state, db |-> db])
          \in {Outcome(Serially(race.msgs[1], race.msgs[2])),
               Outcome(Serially(race.msgs[2], race.msgs[1]))}
\* the handler of the i-th message of the episode when it is dispatched on the
\* state the episode starts from, the column it writes and the value it gives it
Handler(i) == Route(race.msgs[i], race.base.fsm_state)
Writes(i) ==
    LET m == race.msgs[i]
    IN  IF Handler(i) = "handle_name_input" /\ m \in ValidNameTexts
        THEN [col |-> "name", v |-> Str(Strip(m.s))]
        ELSE IF Handler(i) = "handle_gender_input" /\ m \in ValidGenderTexts
        THEN [col |-> "gender", v |-> Str(Lower(Strip(m.s)))]
        ELSE IF Handler(i) = "handle_stack_input" /\ m \in ValidStackTexts
        THEN [col |-> "tech_stack", v |-> Str(Strip(m.s))]
        ELSE [col |-> "-", v |-> NULL]
\* the states the handler of the i-th message may set
Targets(i) ==
    IF Handler(i) = "cmd_start" THEN {"ready_for_vacancy", "waiting_for_name"}
    ELSE IF Handler(i) = "cmd_update" THEN {"choosing_update"}
    ELSE IF Handler(i) = "handle_name_input"
    THEN {"waiting_for_gender", "ready_for_vacancy"}
    ELSE IF Handler(i) = "handle_gender_input"
    THEN {"waiting_for_stack", "ready_for_vacancy"}
    ELSE IF Handler(i) = "handle_stack_input" THEN {"ready_for_vacancy"}
    ELSE {}
\* C20 as amended: when the second message was received while the handler of the
\* first, its write done, was suspended before its set_state, and no storage
\* call fails, the row is not corrupted: each column holds the value written to
\* it last, in the order the messages were received, by the handlers the state
\* at the start dispatches both messages to, or else the value it had (none for
\* a new row), created_at of an existing row is kept, and the FSM state is one
\* set by one of the two handlers.
C20_NoLostWrite ==
    (RaceDone /\ race.met) =>
        /\ \A col \in {"name", "gender", "tech_stack"} :
              IF Writes(2).col = col THEN db[col] = Writes(2).v
              ELSE IF Writes(1).col = col THEN db[col] = Writes(1).v
              ELSE IF race.base.db.exists THEN db[col] = race.base.db[col]
              ELSE ~Truthy(db[col])
        /\ db.exists
        /\ race.base.db.exists => db.created_at = race.base.db.created_at
        /\ fsm_state \in Targets(1) \cup Targets(2)
\* a name arrived, then /update while handle_name_input was suspended, and
\* cmd_update set its state first: the session is ready_for_vacancy with the new
\* name, which neither order of the two messages gives
C20_Witness ==
    /\ RaceDone /\ race.met
    /\ race.msgs = <<Str(NameJo), Str(CmdUpdateText)>>
    /\ ev.h = "handle_name_input" /\ ev.out = "set_state"
    /\ fsm_state = "ready_for_vacancy" /\ db.name = Str(NameJo)
    /\ Serially(race.msgs[1], race.msgs[2]).fsm_state = "choosing_update"
    /\ Serially(race.msgs[2], race.msgs[1]).fsm_state = "choosing_update"

\* C21: when no storage call fails, the profile is complete whenever the FSM
\* state is ready_for_vacancy or choosing_update, also after the updating_all
\* branch of handle_stack_input has set it, and handle_vacancy never answers
\* that the profile is incomplete.
C21_ReadyIsComplete ==
    /\ fsm_state \in {"ready_for_vacancy", "choosing_update"} => ProfileComplete(db)
    /\ ~(ev.h = "handle_vacancy" /\ ev.out = "reject_incomplete")
\* handle_stack_input has set ready_for_vacancy by its updating_all branch, and
\* handle_vacancy has then accepted a vacancy
C21_Witness ==
    /\ fsm_state = "ready_for_vacancy" /\ ProfileComplete(db)
    /\ fsm_data = UpdateData(EmptyData, FALSE)
    /\ ev.h = "handle_vacancy" /\ ev.out = "wait"

\* C22: when no storage call fails, no step of any handler, in any interleaving,
\* replaces a non-empty name, gender or tech_stack by an empty value, and a
\* complete profile stays complete.
C22_CompletenessMonotonic ==
    [][/\ \A col \in {"name", "gender", "tech_stack"} :
             NonEmpty(db[col]) => NonEmpty(db'[col])
       /\ ProfileComplete(db) => ProfileComplete(db')]_vars
\* a complete profile has had its gender written while the handler of a new
\* name was suspended, and is complete
C22_Witness ==
    /\ ev.out = "gender_changed" /\ ProfileComplete(db)
    /\ \E c \in BagToSet(tasks) : c.h = "handle_name_input"

\* C23: when no storage call fails, the name is stored whenever the FSM state is
\* waiting_for_gender, the name and the gender are stored whenever it is
\* waiting_for_stack, and handle_stack_input never warns that the profile is
\* still incomplete.
C23_EarlierFieldsStored ==
    /\ fsm_state = "waiting_for_gender" => NonEmpty(db.name)
    /\ fsm_state = "waiting_for_stack" => (NonEmpty(db.name) /\ NonEmpty(db.gender))
    /\ ev.out # "warn_incomplete"
\* a new user has given the name and the gender and, asked for the stack, sends
\* a valid one: the profile is complete
C23_Witness ==
    /\ script = "p7" /\ fsm_state = "waiting_for_stack"
    /\ ev.h = "handle_stack_input" /\ ev.out = "first_setup"
    /\ ProfileComplete(db)

\* C24: /start and /update are handled by cmd_start and cmd_update in every FSM
\* state; /mystack is handled by cmd_mystack in every state but choosing_update,
\* where handle_update_choice takes it as a choice it does not know and shows
\* the menu again; /mystack changes neither the FSM state nor the row, and
\* leaves no handler suspended.
C24_Dispatch ==
    [][/\ (ev'.text = Str(CmdStartText)) => (ev'.h = "cmd_start")
       /\ (ev'.text = Str(CmdUpdateText)) => (ev'.h = "cmd_update")
       /\ (ev'.text = Str(CmdMystackText)) =>
             /\ IF fsm_state = "choosing_update"
                THEN ev'.h = "handle_update_choice" /\ ev'.out = "menu_again"
                ELSE ev'.h = "cmd_mystack"
             /\ UNCHANGED <<fsm_state, fsm_data, db, clock, tasks>>]_vars
\* /mystack was sent in choosing_update and the menu was shown again
C24_Witness ==
    /\ ev.text = Str(CmdMystackText) /\ ev.h = "handle_update_choice"
    /\ ev.out = "menu_again" /\ fsm_state = "choosing_update"

\* the inputs that are valid for the state awaited: a choice of the menu, a
\* name, a gender, a stack; /start when no state is set
ValidFor(state) ==
    IF state = "choosing_update"
    THEN {Str(BtnName), Str(BtnGender), Str(BtnStack), Str(BtnAll)}
    ELSE IF state = "waiting_for_name" THEN ValidNameTexts
    ELSE IF state = "waiting_for_gender" THEN ValidGenderTexts
    ELSE IF state = "waiting_for_stack" THEN ValidStackTexts
    ELSE IF state = "None" THEN {Str(CmdStartText)}
    ELSE {}
\* whatever valid inputs are sent from st, each handled to completion and no
\* storage call failing, ready_for_vacancy is reached with at most n of them
RECURSIVE ReadyWithin(_, _)
ReadyWithin(st, n) ==
    \/ st.fsm_state = "ready_for_vacancy"
    \/ /\ n > 0
       /\ \A m \in ValidFor(st.fsm_state) : ReadyWithin(SerialStep(st, m), n - 1)
\* the state of the session and of the store
Current == [db |-> db, clock |-> clock, fsm_state |-> fsm_state, fsm_data |-> fsm_data]
\* C25: from every reachable state with no handler in progress, whatever the
\* flag updating_all, valid inputs for the state awaited, handled without a
\* storage failure, lead to ready_for_vacancy in at most four messages (/start
\* and at most three more when no state is set).
C25_NoTrap == tasks = EmptyBag => ReadyWithin(Current, 4)
====
